---- MODULE Spec2Model ----
(***************************************************************************)
(* State-machine model of gpax.vidkl.viDKL (src/gpax/vidkl.py): one        *)
(* viDKL object `self`, the process-wide cache of jit-compiled             *)
(* get_mvn_posterior computations, and the outcome of the last call.       *)
(*                                                                         *)
(* Arrays are records [shape, v]: shape is the tuple of dimensions, v the  *)
(* entries in row-major order.  Python's None is the record None.          *)
(* Quantities that the source obtains from numerical libraries (the SVI    *)
(* optimum, the posterior mean, the drawn samples) are kept as terms over  *)
(* the values they are computed from.                                      *)
(***************************************************************************)
EXTENDS Integers, Sequences, FiniteSets, TLC

\* ---------------------------------------------------------------- bounds
Rows    == 2    \* training inputs X have Rows rows
MaxLen  == 3    \* targets y have Rows..MaxLen entries
NewRows == 1    \* query inputs X_new have NewRows rows
MaxFeat == 2    \* 2-D inputs have 1..MaxFeat feature columns
MaxVal  == 1    \* array entries are multiples v*i, v \in 0..MaxVal
MaxKey  == 1    \* RNG keys are 0..MaxKey

\* ---------------------------------------------------------------- defaults
DefaultZDim == 2   \* __init__'s z_dim
DefaultN == 1000   \* predict's n: number of samples drawn

\* ---------------------------------------------------------------- values
None == [tag |-> "None"]

\* A 1-D array of n entries v, 2v, ..., nv.
Arr1(n, v) == [tag |-> "array", shape |-> <<n>>, v |-> [i \in 1..n |-> v * i]]

\* An n x d array whose row i is (v*i, ..., v*i); v = 0 gives equal rows.
Arr2(n, d, v) ==
    [tag |-> "array", shape |-> <<n, d>>,
     v |-> [k \in 1..(n * d) |-> v * (((k - 1) \div d) + 1)]]

\* Row i of a 2-D array.
Row(A, i) == SubSeq(A.v, (i - 1) * A.shape[2] + 1, i * A.shape[2])

\* The inputs the calls are made with.
TrainX == {Arr1(Rows, v) : v \in 0..MaxVal}
              \cup {Arr2(Rows, d, v) : d \in 1..MaxFeat, v \in 0..MaxVal}
TrainY == {Arr1(m, 1) : m \in Rows..MaxLen}
NewX   == {Arr2(NewRows, d, v) : d \in 1..MaxFeat, v \in 0..MaxVal}
Keys   == 0..MaxKey

ndim(A) == Len(A.shape)

\* X[:, None] of a 1-D array: a trailing axis of size 1.
AddAxis(A) == [tag |-> "array", shape |-> <<A.shape[1], 1>>, v |-> A.v]

\* A call ends with status "ok" (a normal return) or with the class of the
\* exception it raised.  NotFittedError names the designated not-fitted
\* condition; no statement of the source raises it.
NotFittedError == "NotFittedError"

\* ---------------------------------------------------------------- state
VARIABLES
    feature_extractor,  \* self.feature_extractor: "mlp" (default) or a custom nn
    kernel_dim,         \* self.kernel_dim (= z_dim)
    kernel_params,      \* self.kernel_params; Unset while the attribute is absent
    X_train,            \* self.X_train
    y_train,            \* self.y_train
    jit_cache,          \* compiled get_mvn_posterior: cache key -> captured constants
    ret                 \* outcome of the last call on self

vars == <<feature_extractor, kernel_dim, kernel_params, X_train, y_train,
          jit_cache, ret>>

fields == <<X_train, y_train, kernel_params>>

\* ------------------------------------------------- feature extractor, kernel
Raise(exc) == [tag |-> "raise", exc |-> exc]
IsRaise(r) == r.tag = "raise"

\* The extractors a viDKL can be constructed with: the default, and two custom
\* callables (nn argument): the row sum, with a 1-column output for any number
\* of input features, and the identity, with as many columns as its input.
Extractors == {"mlp", "sum", "ident"}

RECURSIVE SumSeq(_)
SumSeq(s) == IF s = <<>> THEN 0 ELSE Head(s) + SumSeq(Tail(s))

\* mlp(embedim): called as self.feature_extractor(X), so X arrives as embedim.
\* It builds hk.Linear modules outside of any hk.transform, which haiku refuses;
\* no embedding is ever returned.
mlp(embedim) == Raise("ValueError")

\* self.feature_extractor(X)
Extract(nn, X) ==
    IF nn = "mlp" THEN mlp(X)
    ELSE IF X.tag # "array" THEN Raise("TypeError")
    ELSE IF nn = "sum"
         THEN [tag |-> "array", shape |-> <<X.shape[1], 1>>,
               v |-> [i \in 1..X.shape[1] |-> SumSeq(Row(X, i))]]
    ELSE X

\* get_kernel(self.kernel)(A, B, params, noise): the two point sets must live in
\* the same embedding space.
KernelDefined(A, B) == A.shape[2] = B.shape[2]

\* k_XX, the train-train matrix with params["noise"] on its diagonal, is exactly
\* singular when no noise is added and two training embeddings coincide (two
\* equal rows, whatever the kernel function).
Singular(z_train, noise) ==
    /\ noise = "zero"
    /\ \E i, j \in 1..z_train.shape[1] : i # j /\ Row(z_train, i) = Row(z_train, j)

\* ------------------------------------------------------------- get_mvn_posterior
\* The body of get_mvn_posterior, as traced and run with self.X_train = Xtr and
\* self.y_train = ytr.  jnp.linalg.inv does not raise on a singular matrix: the
\* inverse, and the mean and covariance computed from it, hold inf/nan.
PosteriorBody(nn, Xtr, ytr, X_test, params) ==
    LET z_train == Extract(nn, Xtr)
        z_test  == Extract(nn, X_test)
    IN  IF IsRaise(z_train) THEN z_train
        ELSE IF IsRaise(z_test) THEN z_test
        ELSE IF ~KernelDefined(z_test, z_train) THEN Raise("TypeError")
        ELSE IF ytr.shape[1] # z_train.shape[1] THEN Raise("TypeError")   \* matmul
        ELSE LET singular == Singular(z_train, params.noise)
                 finite   == ~singular /\ params.noise # "nan"
             IN  [tag |-> "mvn",
                  mean |-> [z_train |-> z_train, y_train |-> ytr,
                            z_test |-> z_test, params |-> params,
                            shape |-> <<z_test.shape[1]>>, finite |-> finite],
                  cov  |-> [z_train |-> z_train, z_test |-> z_test,
                            params |-> params, finite |-> finite],
                  singular |-> singular]

\* jit with self static: the compiled computation is looked up by the shape of
\* X_test (self and the structure of params are the same for every entry kept
\* here).  A miss traces the body, reading self.X_train and self.y_train, which
\* become constants of the compiled computation; a hit runs the compiled
\* computation with the constants of the call that traced it.
CacheKey(X_test) == X_test.shape

Captured(cache, X_test) ==
    IF CacheKey(X_test) \in DOMAIN cache
    THEN cache[CacheKey(X_test)]
    ELSE [X_train |-> X_train, y_train |-> y_train]

get_mvn_posterior(cache, X_test, params) ==
    LET c == Captured(cache, X_test)
    IN  PosteriorBody(feature_extractor, c.X_train, c.y_train, X_test, params)

\* The cache after the call: a trace that raised compiles nothing.
CacheAfter(cache, X_test, params) ==
    IF CacheKey(X_test) \in DOMAIN cache
       \/ IsRaise(get_mvn_posterior(cache, X_test, params))
    THEN cache
    ELSE [k \in DOMAIN cache \cup {CacheKey(X_test)} |->
            IF k = CacheKey(X_test)
            THEN [X_train |-> X_train, y_train |-> y_train]
            ELSE cache[k]]

\* ExactGP._predict: the posterior for one hyperparameter sample, and n draws
\* from it with the given key.
_predict(cache, rng_key, X_test, params, n) ==
    LET mvn == get_mvn_posterior(cache, X_test, params)
    IN  IF IsRaise(mvn) THEN mvn
        ELSE [tag |-> "result", y_mean |-> mvn.mean,
              y_sampled |-> [rng_key |-> rng_key, loc |-> mvn.mean, cov |-> mvn.cov,
                             shape |-> <<n, X_test.shape[1]>>],
              singular |-> mvn.singular]

\* ------------------------------------------------------------------ values of calls
\* The attribute self.kernel_params before any assignment to it.
Unset == [tag |-> "unset"]

\* kernel_params dictionaries a caller can pass to predict: with the noise term
\* set to zero, or positive.
UserParams == {[tag |-> "dict", noise |-> z, run |-> <<>>] : z \in {"zero", "pos"}}

EmptyCache == [k \in {} |-> None]

\* ------------------------------------------------------------------------ __init__
\* viDKL.__init__ sets feature_extractor, kernel_dim (and latent_prior) and
\* clears the compilation cache.  It does not create kernel_params; the training
\* data exists only once fit has stored it.
Init ==
    /\ feature_extractor \in Extractors
    /\ kernel_dim = DefaultZDim
    /\ kernel_params = Unset
    /\ X_train = None
    /\ y_train = None
    /\ jit_cache = EmptyCache
    /\ ret = [op |-> "__init__", status |-> "ok"]

\* Another viDKL is constructed: xla._xla_callable.cache_clear() drops every
\* compiled computation of the process, those of self included.
ConstructOther ==
    /\ jit_cache' = EmptyCache
    /\ UNCHANGED <<feature_extractor, kernel_dim, kernel_params, X_train, y_train, ret>>

\* ----------------------------------------------------------------------------- fit
\* X = X if X.ndim > 1 else X[:, None]
Coerce(X) == IF ndim(X) > 1 THEN X ELSE AddAxis(X)

\* What svi.run(rng_key, num_steps) can end with for the model on (X, y): the
\* model raises when the feature extractor does, and when the observed y does
\* not broadcast against the likelihood's mean jnp.zeros(z.shape[0]) (len(y) is
\* neither 1 nor the number of rows); otherwise the optimisation runs all its
\* steps, with a loss that stays finite or becomes NaN/Inf.  SVI.run does not
\* raise on a non-finite loss.
SviOutcomes(nn, X, y) ==
    IF IsRaise(Extract(nn, X)) THEN {"raise"}
    ELSE IF y.shape[1] \notin {1, X.shape[1]} THEN {"raise"}
    ELSE {"finite", "nonfinite"}

\* svi.guide.median(params): the point estimates reached by the run from
\* rng_key on (X, y); the noise is positive (LogNormal site) unless the run went
\* non-finite.
Median(rng_key, X, y, outcome) ==
    [tag |-> "dict",
     noise |-> IF outcome = "finite" THEN "pos" ELSE "nan",
     run |-> <<rng_key, X, y>>]

\* self.kernel_params after fit: assigned only when svi.run returned.
FitParams(rng_key, X, y, outcome) ==
    IF outcome = "raise" THEN kernel_params ELSE Median(rng_key, X, y, outcome)

fit(rng_key, X, y, outcome) ==
    LET Xc == Coerce(X)
    IN  /\ outcome \in SviOutcomes(feature_extractor, Xc, y)
        /\ X_train' = Xc
        /\ y_train' = y
        /\ kernel_params' = FitParams(rng_key, Xc, y, outcome)
        /\ ret' = [op |-> "fit",
                   status |-> IF outcome = "raise" THEN "ValueError" ELSE "ok",
                   loss |-> outcome]
        /\ UNCHANGED <<feature_extractor, kernel_dim, jit_cache>>

\* ------------------------------------------------------------------------- predict
\* A predict that keeps the explicit kernel_params on the instance.
PredictParams_StoresOverride(override) ==
    IF override = None THEN kernel_params ELSE override

\* self.kernel_params after predict(rng_key, X_new, kernel_params): predict only
\* binds its local name.
PredictParams(override) == kernel_params

predict(rng_key, X_new, override) ==
    IF override = None /\ kernel_params = Unset
    THEN \* self.kernel_params: no such attribute
         /\ ret' = [op |-> "predict", status |-> "AttributeError",
                    rng_key |-> rng_key, X_new |-> X_new, override |-> override]
         /\ UNCHANGED <<feature_extractor, kernel_dim, kernel_params, X_train,
                        y_train, jit_cache>>
    ELSE LET params == IF override = None THEN kernel_params ELSE override
             r == _predict(jit_cache, rng_key, X_new, params, DefaultN)
         IN  /\ jit_cache' = CacheAfter(jit_cache, X_new, params)
             /\ ret' = IF IsRaise(r)
                       THEN [op |-> "predict", status |-> r.exc,
                             rng_key |-> rng_key, X_new |-> X_new,
                             override |-> override]
                       ELSE [op |-> "predict", status |-> "ok",
                             rng_key |-> rng_key, X_new |-> X_new,
                             override |-> override,
                             fitted |-> <<X_train, y_train, kernel_params>>,
                             y_mean |-> r.y_mean, y_sampled |-> r.y_sampled,
                             singular |-> r.singular]
             /\ kernel_params' = PredictParams(override)
             /\ UNCHANGED <<feature_extractor, kernel_dim, X_train, y_train>>

\* --------------------------------------------------------------------------- embed
embed(X_test) ==
    LET z == Extract(feature_extractor, X_test)
    IN  /\ ret' = IF IsRaise(z)
                  THEN [op |-> "embed", status |-> z.exc, X_test |-> X_test]
                  ELSE [op |-> "embed", status |-> "ok", X_test |-> X_test, z |-> z]
        /\ UNCHANGED <<feature_extractor, kernel_dim, kernel_params, X_train,
                       y_train, jit_cache>>

\* ---------------------------------------------------------------------------- spec
FitAny ==
    \E rng_key \in Keys, X \in TrainX, y \in TrainY,
       outcome \in {"raise", "finite", "nonfinite"} :
        fit(rng_key, X, y, outcome)

PredictAny ==
    \E rng_key \in Keys, X_new \in NewX, override \in {None} \cup UserParams :
        predict(rng_key, X_new, override)

EmbedAny == \E X_test \in NewX \cup {Coerce(X) : X \in TrainX} : embed(X_test)

Next == FitAny \/ PredictAny \/ EmbedAny \/ ConstructOther

Spec == Init /\ [][Next]_vars

\* ========================================================================== claims
\* kernel_params is the estimate fitted on the training data now stored.
FittedOnStored ==
    /\ kernel_params.tag = "dict"
    /\ Len(kernel_params.run) = 3
    /\ kernel_params.run[2] = X_train
    /\ kernel_params.run[3] = y_train

\* C1: predict on a freshly constructed instance on which fit was never called
\* fails with the designated not-fitted error.
C1_FreshPredictNotFitted ==
    (ret.op = "predict" /\ X_train = None /\ ret.override = None)
        => ret.status = NotFittedError

\* C2: when the most recent fit call failed, a following predict call without
\* explicit kernel_params fails with the not-fitted condition (here in its
\* weakest reading: it does not return a result).
C2_NoResultAfterFailedFit ==
    [][(ret.op = "fit" /\ ret.status # "ok"
            /\ ret'.op = "predict" /\ ret'.override = None)
        => ret'.status # "ok"]_vars

\* C3: a fit whose loss became non-finite reports a failure to its caller and
\* does not complete normally with hyperparameters stored.
C3_NonFiniteLossFails ==
    (ret.op = "fit" /\ ret.loss = "nonfinite") => ret.status # "ok"

\* C4: after a fit on inputs with d features, predict with an X_new of another
\* feature count fails with the shape error (here in its weakest reading: it
\* does not return a result).
C4_FeatureMismatchFails ==
    (ret.op = "predict" /\ ret.override = None /\ FittedOnStored
            /\ ret.X_new.shape[2] # X_train.shape[2])
        => ret.status # "ok"

\* C5: a predict call that returns conditions on the training data stored by the
\* most recent fit: the embedding of X_train and y_train as they are stored now.
C5_PredictUsesStoredData ==
    (ret.op = "predict" /\ ret.status = "ok")
        => /\ ret.y_mean.z_train = Extract(feature_extractor, X_train)
           /\ ret.y_mean.y_train = y_train

\* C6: X_train, y_train and kernel_params are written only by fit: every predict
\* call, with or without explicit kernel_params, and every embed call leaves
\* all three unchanged.  (A step that ends with ret'.op "predict" or "embed" is
\* such a call, or the construction of another instance while ret stays.)
C6_OnlyFitWrites ==
    [][(ret'.op \in {"predict", "embed"}) => UNCHANGED fields]_vars

\* C6 witness: predict has returned for explicit kernel_params on a fitted
\* instance, whose stored kernel_params are still the fitted ones.
C6_Witness ==
    /\ ret.op = "predict" /\ ret.status = "ok"
    /\ ret.override # None
    /\ FittedOnStored
    /\ kernel_params # ret.override

\* C7: when the train-train kernel matrix is singular, predict fails with the
\* singular-kernel error; it never returns a mean and samples computed from the
\* failed inverse.
C7_SingularKernelFails ==
    (ret.op = "predict" /\ ret.status = "ok") => ~ret.singular

\* C8: two predict calls with the same key, the same X_new and the same fitted
\* state (and the same explicit kernel_params, if any) return the same mean and
\* samples, whatever happened before each of them.
C8_PredictDeterministic ==
    [][(/\ ret.op = "predict" /\ ret.status = "ok"
        /\ ret'.op = "predict" /\ ret'.status = "ok"
        /\ ret'.rng_key = ret.rng_key
        /\ ret'.X_new = ret.X_new
        /\ ret'.override = ret.override
        /\ ret'.fitted = ret.fitted)
        => (ret'.y_mean = ret.y_mean /\ ret'.y_sampled = ret.y_sampled)]_vars

\* C9: after a fit call the stored X_train is two-dimensional and has as many
\* rows as the stored y_train has entries.
C9_StoredShapesAgree ==
    (ret.op = "fit") => (ndim(X_train) = 2 /\ X_train.shape[1] = y_train.shape[1])

\* C10: the last dimension of embed(X) is the z_dim given at construction.
C10_EmbedDimIsZDim ==
    (ret.op = "embed" /\ ret.status = "ok") => ret.z.shape[2] = kernel_dim

====
